---------------------------- MODULE Spec2Model ----------------------------
(***************************************************************************)
(* Model of ihsm/ihsm-self-contained/Data_Link_Calculations.ipynb: the     *)
(* kernel namespace of the notebook (par, spec, x, y, the two function     *)
(* names), the cells as actions, and the calculators as operators.         *)
(*                                                                         *)
(* Numbers.  Python floats are modelled as real numbers: +, * and / are    *)
(* exact on rationals (sign, numerator, denominator, the last two as       *)
(* arbitrary-size naturals), and math.sqrt, math.atan and math.log10       *)
(* return fixed-point values with Scale units per 1.  Float rounding,      *)
(* overflow and underflow are outside the model.                           *)
(***************************************************************************)
EXTENDS Integers, Sequences, FiniteSets, TLC

(***************************************************************************)
(* Arbitrary-size naturals: little-endian sequences of limbs in base Base, *)
(* without leading zero limbs (zero is the empty sequence).                *)
(***************************************************************************)
Base == 10^4

RECURSIVE BigOf(_)
BigOf(n) == IF n = 0 THEN <<>> ELSE <<n % Base>> \o BigOf(n \div Base)

RECURSIVE BigTrim(_)
BigTrim(a) ==
    IF a = <<>> THEN <<>>
    ELSE IF a[Len(a)] = 0 THEN BigTrim(SubSeq(a, 1, Len(a) - 1))
    ELSE a

Limb(a, i) == IF i <= Len(a) THEN a[i] ELSE 0

RECURSIVE BigAddFrom(_, _, _, _)
BigAddFrom(a, b, i, carry) ==
    IF i > Len(a) /\ i > Len(b)
    THEN IF carry = 0 THEN <<>> ELSE <<carry>>
    ELSE LET s == Limb(a, i) + Limb(b, i) + carry
         IN  <<s % Base>> \o BigAddFrom(a, b, i + 1, s \div Base)

BigAdd(a, b) == BigAddFrom(a, b, 1, 0)

\* a * m for a limb m < Base.
RECURSIVE BigMulLimbFrom(_, _, _, _)
BigMulLimbFrom(a, m, i, carry) ==
    IF i > Len(a)
    THEN IF carry = 0 THEN <<>> ELSE <<carry>>
    ELSE LET s == a[i] * m + carry
         IN  <<s % Base>> \o BigMulLimbFrom(a, m, i + 1, s \div Base)

RECURSIVE BigMul(_, _)
BigMul(a, b) ==
    IF a = <<>> \/ b = <<>> THEN <<>>
    ELSE LET rest == BigMul(a, Tail(b))
             low  == BigMulLimbFrom(a, Head(b), 1, 0)
         IN  BigTrim(BigAdd(low, IF rest = <<>> THEN <<>> ELSE <<0>> \o rest))

\* -1, 0, 1 as a < b, a = b, a > b.
RECURSIVE BigCmpFrom(_, _, _)
BigCmpFrom(a, b, i) ==
    IF i = 0 THEN 0
    ELSE IF a[i] < b[i] THEN -1
    ELSE IF a[i] > b[i] THEN 1
    ELSE BigCmpFrom(a, b, i - 1)

BigCmp(a, b) ==
    IF Len(a) < Len(b) THEN -1
    ELSE IF Len(a) > Len(b) THEN 1
    ELSE BigCmpFrom(a, b, Len(a))

(***************************************************************************)
(* Exact rationals [s, n, d]: sign s in {-1, 0, 1}, n and d naturals,      *)
(* d > 0, not reduced; compared by cross-multiplication.                   *)
(***************************************************************************)
Sgn(i) == IF i > 0 THEN 1 ELSE IF i < 0 THEN -1 ELSE 0
Abs(i) == IF i < 0 THEN -i ELSE i

Rat(num, den) ==
    [s |-> Sgn(num) * Sgn(den), n |-> BigOf(Abs(num)), d |-> BigOf(Abs(den))]

RInt(i) == Rat(i, 1)

RMul(p, q) == [s |-> p.s * q.s, n |-> BigMul(p.n, q.n), d |-> BigMul(p.d, q.d)]

\* p / q for q # 0 (the callers raise ZeroDivisionError before dividing).
RDiv(p, q) == [s |-> p.s * q.s, n |-> BigMul(p.n, q.d), d |-> BigMul(p.d, q.n)]

RNeg(p) == [p EXCEPT !.s = -p.s]

\* -1, 0, 1 as p < q, p = q, p > q.
RCmp(p, q) ==
    IF p.s # q.s THEN (IF p.s < q.s THEN -1 ELSE 1)
    ELSE p.s * BigCmp(BigMul(p.n, q.d), BigMul(q.n, p.d))

REq(p, q) == RCmp(p, q) = 0
RLt(p, q) == RCmp(p, q) < 0
RLe(p, q) == RCmp(p, q) <= 0

\* Sum of two rationals that are both >= 0.
RAddPos(p, q) ==
    LET n == BigAdd(BigMul(p.n, q.d), BigMul(q.n, p.d))
    IN  [s |-> IF n = <<>> THEN 0 ELSE 1, n |-> n, d |-> BigMul(p.d, q.d)]

MaxInt == 2^30

\* floor(|p| * m) for a natural m, found by bisection; the result must be
\* at most 2^30.
RECURSIVE FloorSearch(_, _, _, _)
FloorSearch(num, den, lo, hi) ==
    \* invariant: lo * den <= num < (hi + 1) * den
    IF lo = hi THEN lo
    ELSE LET mid == lo + (hi - lo + 1) \div 2
         IN  IF BigCmp(BigMul(BigOf(mid), den), num) <= 0
             THEN FloorSearch(num, den, mid, hi)
             ELSE FloorSearch(num, den, lo, mid - 1)

RFloorAbs(p, m) == FloorSearch(BigMul(p.n, BigOf(m)), p.d, 0, MaxInt)

(***************************************************************************)
(* Fixed point: an integer v stands for v / Scale.                         *)
(***************************************************************************)
Scale == 10^7

Fix(v) == Rat(v, Scale)

\* <<q, r>> with a * b = q * c + r and 0 <= r < c, for a, b >= 0 and
\* 0 < c < 2^26, without an intermediate product (b is consumed in base 16).
RECURSIVE MulDivRem(_, _, _)
MulDivRem(a, b, c) ==
    IF b = 0 THEN <<0, 0>>
    ELSE LET h  == MulDivRem(a, b \div 16, c)
             r2 == 16 * h[2] + (b % 16) * (a % c)
         IN  <<16 * h[1] + (b % 16) * (a \div c) + r2 \div c, r2 % c>>

MulDiv(a, b, c) == MulDivRem(a, b, c)[1]

\* math.sqrt of a rational p >= 0, as a fixed-point value: the largest v
\* with v^2 * p.d <= p.n * Scale^2.
RECURSIVE SqrtSearch(_, _, _, _)
SqrtSearch(target, den, lo, hi) ==
    IF lo = hi THEN lo
    ELSE LET mid == lo + (hi - lo + 1) \div 2
         IN  IF BigCmp(BigMul(BigMul(BigOf(mid), BigOf(mid)), den), target) <= 0
             THEN SqrtSearch(target, den, mid, hi)
             ELSE SqrtSearch(target, den, lo, mid - 1)

Sqrt(p) == SqrtSearch(BigMul(p.n, BigMul(BigOf(Scale), BigOf(Scale))), p.d, 0, MaxInt)

\* atan for 0 <= v <= Scale by Euler's series
\*   atan x = sum_n t_n,  t_0 = x/(1+x^2),  t_(n+1) = t_n * (2n+2)/(2n+3) * x^2/(1+x^2).
RECURSIVE AtanSum(_, _, _)
AtanSum(t, r, n) ==
    IF t = 0 THEN 0
    ELSE t + AtanSum(MulDiv(MulDiv(t, r, Scale), 2 * n + 2, 2 * n + 3), r, n + 1)

AtanUnit(v) ==
    LET x2  == MulDiv(v, v, Scale)
        den == Scale + x2
    IN  AtanSum(MulDiv(v, Scale, den), MulDiv(x2, Scale, den), 0)

HalfPi == 2 * AtanUnit(Scale)

\* math.atan of a rational, as a fixed-point value (atan is odd; above 1,
\* atan x = pi/2 - atan(1/x)).
Atan(p) ==
    IF p.s = 0 THEN 0
    ELSE p.s * (IF BigCmp(p.n, p.d) <= 0
                THEN AtanUnit(RFloorAbs(p, Scale))
                ELSE HalfPi - AtanUnit(RFloorAbs([p EXCEPT !.n = p.d, !.d = p.n], Scale)))

\* math.log10 of a rational p > 0, as a fixed-point value: the decade e with
\* 10^e <= p < 10^(e+1), then the fraction bit by bit by repeated squaring.
LogBits == 24

RECURSIVE Log10Frac(_, _)
Log10Frac(m, bit) ==
    \* m in [Scale, 10 * Scale); bit is the weight of the next binary digit
    IF bit > LogBits THEN 0
    ELSE LET sq == MulDiv(m, m, Scale)
         IN  IF sq >= 10 * Scale
             THEN Scale \div (2^bit) + Log10Frac(sq \div 10, bit + 1)
             ELSE Log10Frac(sq, bit + 1)

RECURSIVE Log10Pos(_, _)
Log10Pos(p, e) ==
    IF RLt(p, RInt(1)) THEN Log10Pos(RMul(p, RInt(10)), e - 1)
    ELSE IF RLe(RInt(10), p) THEN Log10Pos(RDiv(p, RInt(10)), e + 1)
    ELSE e * Scale + Log10Frac(RFloorAbs(p, Scale), 1)

Log10(p) == Log10Pos(p, 0)


\* Python's round-half-even of p * m to an integer (the '.3f' of an f-string
\* with m = 1000), signed.
RoundAt(p, m) ==
    LET q    == RFloorAbs(p, 2 * m)
        tie  == BigCmp(BigMul(BigOf(q), p.d), BigMul(p.n, BigOf(2 * m))) = 0
        down == q \div 2
    IN  p.s * (IF q % 2 = 0 THEN down
               ELSE IF tie /\ down % 2 = 0 THEN down
               ELSE down + 1)

\* The repr of a float, kept to the fixed-point resolution, signed.
Repr(p) == p.s * RFloorAbs(p, Scale)

(***************************************************************************)
(* The parameter table.  A number of par is kept as the integer count of   *)
(* the unit of its key (Unit), so that 'distance': 10e-3 is 10 and         *)
(* 'pd_Ir0': 30e-9 is 30; Val gives the real number.  A spectral curve is  *)
(* a record of two sequences, x and y, both counted in thousandths.        *)
(***************************************************************************)
Unit ==
    [distance |-> 10^3, led_Ie |-> 10^3, led_theta |-> 1, led_current |-> 10^3,
     pd_eff |-> 10^6, pd_Ir0 |-> 10^9, als_IPH3 |-> 10^6, led_IV_typ |-> 10^3]

Val(p, k) == Rat(p[k], Unit[k])

common_distance == 10
\* 145.0e-3/100*20 with the division done on integers.
uplink_led_Ie_floor_division == (145 \div 100) * 20
uplink_led_Ie == (145 * 20) \div 100
uplink_led_theta == 20
uplink_led_current == 20
uplink_pd_eff == 32
uplink_pd_Ir0 == 30
downlink_als_IPH3 == 520
downlink_led_IV_typ == 60

\* The detector curve with two neighbouring points digitised out of order
\* (638.912 before 635.146).
als_spectral_response_out_of_order ==
    [x |-> <<299372, 340167, 377824, 426778, 470711, 528452, 569874, 607531,
             618828, 627615, 638912, 635146, 652720, 664017, 667782, 685356,
             697908, 726778, 749372, 843515, 894351>>,
     y |-> <<3659, 5488, 9451, 22866, 40244, 63110, 81402, 94512, 96646,
             99695, 79878, 96341, 60366, 40244, 32317, 19512, 12805, 9756,
             7927, 8232, 7317>>]

als_spectral_response ==
    [x |-> <<299372, 340167, 377824, 426778, 470711, 528452, 569874, 607531,
             618828, 627615, 635146, 638912, 652720, 664017, 667782, 685356,
             697908, 726778, 749372, 843515, 894351>>,
     y |-> <<3659, 5488, 9451, 22866, 40244, 63110, 81402, 94512, 96646,
             99695, 96341, 79878, 60366, 40244, 32317, 19512, 12805, 9756,
             7927, 8232, 7317>>]

led_spectral_response ==
    [x |-> <<373584, 439648, 489746, 537500, 554199, 563281, 569434, 574414,
             579688, 588184, 590820, 592578, 595215, 597559, 598145, 601953,
             606934, 610742, 618652, 630078, 793555, 796631>>,
     y |-> <<5, 5, 4, 2, 8, 31, 67, 125, 274, 806, 993, 994, 776, 475, 318,
             185, 77, 34, 10, 4, 1, 4>>]

\* A curve with every response value multiplied by k.
Scaled(curve, k) == [x |-> curve.x, y |-> [i \in 1..Len(curve.y) |-> k * curve.y[i]] \o <<>>]

\* The dict literal of the par cell, with the values a user of the worksheet
\* edits as arguments: the common distance, the dark current, `own`, the set
\* (empty or a singleton) of distances the uplink set defines itself, and the
\* amplitudes of the two digitised curves.
ParLiteral(dist, dark, own, alsAmp, ledAmp) ==
    [common   |-> [distance |-> dist],
     uplink   |-> [k \in {"distance"} \cap {"distance" : v \in own} |-> CHOOSE v \in own : TRUE]
                  @@ [led_Ie |-> uplink_led_Ie, led_theta |-> uplink_led_theta,
                      led_current |-> uplink_led_current, pd_eff |-> uplink_pd_eff,
                      pd_Ir0 |-> dark],
     downlink |-> [als_IPH3 |-> downlink_als_IPH3, led_IV_typ |-> downlink_led_IV_typ,
                   als_spectral_response |-> Scaled(als_spectral_response, alsAmp),
                   led_spectral_response |-> Scaled(led_spectral_response, ledAmp)]]

\* Iteration order of a dict is insertion order.
TopOrder == <<"common", "uplink", "downlink">>
KeyOrder ==
    <<"distance", "led_Ie", "led_theta", "led_current", "pd_eff", "pd_Ir0",
      "als_IPH3", "led_IV_typ", "als_spectral_response", "led_spectral_response">>
KeysOf(d) == SelectSeq(KeyOrder, LAMBDA k : k \in DOMAIN d)

\* The inner loop without its `if k not in par[sk]`: common overrides.
RECURSIVE MergeInner_overriding(_, _, _)
MergeInner_overriding(p, sk, ks) ==
    IF ks = <<>> THEN p
    ELSE LET k == Head(ks)
         IN  MergeInner_overriding([p EXCEPT ![sk] = (k :> p["common"][k]) @@ p[sk]],
                                   sk, Tail(ks))

\* for k in par['common']: if k not in par[sk]: par[sk][k] = par['common'][k]
RECURSIVE MergeInner(_, _, _)
MergeInner(p, sk, ks) ==
    IF ks = <<>> THEN p
    ELSE LET k == Head(ks)
         IN  MergeInner(IF k \notin DOMAIN p[sk]
                        THEN [p EXCEPT ![sk] = (k :> p["common"][k]) @@ p[sk]]
                        ELSE p,
                        sk, Tail(ks))

\* The loop followed by  del par['common'].
RECURSIVE MergeOuter_dropping_common(_, _)
MergeOuter_dropping_common(p, sks) ==
    IF sks = <<>> THEN [sk \in DOMAIN p \ {"common"} |-> p[sk]]
    ELSE LET sk == Head(sks)
         IN  MergeOuter_dropping_common(
                 IF sk # "common" THEN MergeInner(p, sk, KeysOf(p["common"])) ELSE p,
                 Tail(sks))

\* for sk in par: if sk != 'common': ...
RECURSIVE MergeOuter(_, _)
MergeOuter(p, sks) ==
    IF sks = <<>> THEN p
    ELSE LET sk == Head(sks)
         IN  MergeOuter(IF sk # "common" THEN MergeInner(p, sk, KeysOf(p["common"])) ELSE p,
                        Tail(sks))

Merge(lit) == MergeOuter(lit, SelectSeq(TopOrder, LAMBDA sk : sk \in DOMAIN lit))

(***************************************************************************)
(* calculate_pd_current.  An operator that can raise returns a record with *)
(* err ("none" or the exception's name).  A calculator returns what it     *)
(* printed (lines), how it ended (err) and the locals it had computed.     *)
(***************************************************************************)
NoDict == [k \in {} |-> 0]

\* a = b = 1e-2
Side == Rat(1, 100)

\* The expression without the parentheses around its denominator:
\*   4*math.atan(a*b / 2*d*math.sqrt(4*(d**2) + a**2 + b**2))
pd_angle_norm_unparenthesised(a, b, d) ==
    LET inner == RAddPos(RAddPos(RMul(RInt(4), RMul(d, d)), RMul(a, a)), RMul(b, b))
        arg   == RMul(RMul(RDiv(RMul(a, b), RInt(2)), d), Fix(Sqrt(inner)))
    IN  [err |-> "none", v |-> RMul(RInt(4), Fix(Atan(arg)))]

\* angle_norm = 4*math.atan(a*b / (2*d*math.sqrt(4*(d**2) + a**2 + b**2)))
pd_angle_norm(a, b, d) ==
    LET inner == RAddPos(RAddPos(RMul(RInt(4), RMul(d, d)), RMul(a, a)), RMul(b, b))
        den   == RMul(RMul(RInt(2), d), Fix(Sqrt(inner)))
    IN  IF den.s = 0
        THEN [err |-> "ZeroDivisionError", v |-> RInt(0)]
        ELSE [err |-> "none", v |-> RMul(RInt(4), Fix(Atan(RDiv(RMul(a, b), den))))]

\* The locals with the dark current added to the photocurrent:
\*   current_pd = p['pd_eff'] * irradiance_pd + p['pd_Ir0']
pd_locals_with_dark_current(p, angle_norm) ==
    LET irradiance_pd == RMul(RDiv(RMul(Val(p, "led_Ie"), Val(p, "led_current")),
                                   Rat(20, 10^3)),
                              angle_norm)
        signal        == RMul(Val(p, "pd_eff"), irradiance_pd)
    IN  [angle_norm |-> angle_norm, irradiance_pd |-> irradiance_pd,
         current_pd |-> IF signal.s = 1 /\ Val(p, "pd_Ir0").s = 1
                        THEN RAddPos(signal, Val(p, "pd_Ir0")) ELSE signal]

\* The locals with a sign slip:  current_pd = -p['pd_eff'] * irradiance_pd
pd_locals_negated(p, angle_norm) ==
    LET irradiance_pd == RMul(RDiv(RMul(Val(p, "led_Ie"), Val(p, "led_current")),
                                   Rat(20, 10^3)),
                              angle_norm)
    IN  [angle_norm |-> angle_norm, irradiance_pd |-> irradiance_pd,
         current_pd |-> RNeg(RMul(Val(p, "pd_eff"), irradiance_pd))]

\* The locals that follow angle_norm:
\*   irradiance_pd = p['led_Ie'] * p['led_current']/20e-3 * angle_norm
\*   current_pd = p['pd_eff'] * irradiance_pd
pd_locals(p, angle_norm) ==
    LET irradiance_pd == RMul(RDiv(RMul(Val(p, "led_Ie"), Val(p, "led_current")),
                                   Rat(20, 10^3)),
                              angle_norm)
    IN  [angle_norm |-> angle_norm, irradiance_pd |-> irradiance_pd,
         current_pd |-> RMul(Val(p, "pd_eff"), irradiance_pd)]

\* The SNR of the magnitude, 20*math.log10(abs(current_pd/p['pd_Ir0'])).
pd_snr_of_magnitude(current_pd, pd_Ir0) ==
    IF pd_Ir0.s = 0 THEN [err |-> "ZeroDivisionError", v |-> 0]
    ELSE IF RDiv(current_pd, pd_Ir0).s = 0 THEN [err |-> "ValueError", v |-> 0]
    ELSE LET q == RDiv(current_pd, pd_Ir0)
         IN  [err |-> "none", v |-> 20 * Log10([q EXCEPT !.s = 1])]

\* The power-ratio decibel, 10*math.log10(current_pd/p['pd_Ir0']).
pd_snr_power_ratio(current_pd, pd_Ir0) ==
    IF pd_Ir0.s = 0 THEN [err |-> "ZeroDivisionError", v |-> 0]
    ELSE IF RDiv(current_pd, pd_Ir0).s <= 0 THEN [err |-> "ValueError", v |-> 0]
    ELSE [err |-> "none", v |-> 10 * Log10(RDiv(current_pd, pd_Ir0))]

\* 20*math.log10(current_pd/p['pd_Ir0']), as a fixed-point value.
pd_snr(current_pd, pd_Ir0) ==
    IF pd_Ir0.s = 0 THEN [err |-> "ZeroDivisionError", v |-> 0]
    ELSE IF RDiv(current_pd, pd_Ir0).s <= 0 THEN [err |-> "ValueError", v |-> 0]
    ELSE [err |-> "none", v |-> 20 * Log10(RDiv(current_pd, pd_Ir0))]

\* The body of calculate_pd_current on p = par['uplink']: it prints the
\* irradiance and the current (in uA) to three decimals, then the SNR in full.
calculate_pd_current(p) ==
    LET ang == pd_angle_norm(Side, Side, Val(p, "distance"))
        loc == pd_locals(p, ang.v)
        two == <<RoundAt(loc.irradiance_pd, 10^3),
                 RoundAt(RMul(loc.current_pd, RInt(10^6)), 10^3)>>
        snr == pd_snr(loc.current_pd, Val(p, "pd_Ir0"))
    IN  IF ang.err # "none" THEN [err |-> ang.err, lines |-> <<>>, locals |-> NoDict]
        ELSE IF snr.err # "none" THEN [err |-> snr.err, lines |-> two, locals |-> loc]
        ELSE [err |-> "none", lines |-> Append(two, snr.v), locals |-> loc]

(***************************************************************************)
(* The colour library, as far as the notebook uses it.  A spectral         *)
(* distribution on the observer's grid is a record [start, end, v]: v[i]   *)
(* is the fixed-point value at start + i - 1 nm.                           *)
(*   SpectralDistribution(y, x).normalise() scales the values by 1/max;    *)
(*   .interpolate(obs.shape) resamples on the 1 nm grid of the observer,   *)
(*     clipped to the curve's own range (the library's interpolator and    *)
(*     the linear one used here are both linear maps of the values);       *)
(*   luminous_efficiency(sd, lef) is trapz(lef * sd) / trapz(sd) on the    *)
(*     grid of sd, with lef taken as 0 outside its range.                  *)
(***************************************************************************)
ObsStart == 360
ObsEnd == 830

\* CIE 1924 photopic standard observer: x in thousandths of a nm, y in
\* fixed-point units, sampled every 10 nm.
photopic_observer ==
    [x |-> [i \in 1..48 |-> (ObsStart + 10 * (i - 1)) * 10^3],
     y |-> <<39, 124, 390, 1200, 3960, 12100, 40000, 116000, 230000, 380000,
             600000, 909800, 1390200, 2080200, 3230000, 5030000, 7100000,
             8620000, 9540000, 9949500, 9950000, 9520000, 8700000, 7570000,
             6310000, 5030000, 3810000, 2650000, 1750000, 1070000, 610000,
             320000, 170000, 82100, 41020, 20910, 10470, 5200, 2492, 1200,
             600, 300, 150, 75, 37, 18, 9, 5>>]

\* colour.luminous_efficacy(colour.sd_CIE_standard_illuminant_A()), in lm/W.
illuminant_A_efficacy == Rat(1558, 10)

RECURSIVE SeqMax(_, _, _)
SeqMax(q, lo, hi) ==
    IF lo = hi THEN q[lo]
    ELSE LET mid == (lo + hi) \div 2
             l   == SeqMax(q, lo, mid)
             r   == SeqMax(q, mid + 1, hi)
         IN  IF l >= r THEN l ELSE r

\* .normalise(): the values times 1/max, as fixed-point values.
normalise(curve) ==
    LET top == SeqMax(curve.y, 1, Len(curve.y))
    IN  [x |-> curve.x, y |-> [i \in 1..Len(curve.y) |-> MulDiv(curve.y[i], Scale, top)] \o <<>>]

\* The curve at w (thousandths of a nm), x[1] <= w <= x[Len].
InterpAt(curve, w) ==
    LET i  == CHOOSE j \in 1..(Len(curve.x) - 1) : curve.x[j] <= w /\ w <= curve.x[j + 1]
        dy == curve.y[i + 1] - curve.y[i]
    IN  curve.y[i] + Sgn(dy) * MulDiv(Abs(dy), w - curve.x[i], curve.x[i + 1] - curve.x[i])

\* .interpolate(obs.shape)
interpolate(curve) ==
    LET first == curve.x[1]
        last  == curve.x[Len(curve.x)]
        lo    == IF first <= ObsStart * 10^3 THEN ObsStart ELSE (first + 999) \div 10^3
        hi    == IF last >= ObsEnd * 10^3 THEN ObsEnd ELSE last \div 10^3
    IN  [start |-> lo, end |-> hi,
         v |-> [i \in 1..(hi - lo + 1) |-> InterpAt(curve, (lo + i - 1) * 10^3)] \o <<>>]

\* lef at wavelength w nm, 0 outside its range.
SdAt(sd, w) == IF w < sd.start \/ w > sd.end THEN 0 ELSE sd.v[w - sd.start + 1]

\* Twice the trapezoid sum over [lo, hi] nm of f, as a natural.
RECURSIVE Trapz2(_, _, _)
Trapz2(f, lo, hi) ==
    IF hi = lo THEN <<>>
    ELSE IF hi = lo + 1 THEN BigAdd(f[lo], f[hi])
    ELSE LET mid == (lo + hi) \div 2
         IN  BigAdd(Trapz2(f, lo, mid), Trapz2(f, mid, hi))

\* colour.luminous_efficiency(sd, lef)
luminous_efficiency(sd, lef) ==
    LET prod == [w \in sd.start..sd.end |-> BigMul(BigOf(SdAt(lef, w)), BigOf(SdAt(sd, w)))]
        one  == [w \in sd.start..sd.end |-> BigOf(SdAt(sd, w))]
        num  == Trapz2(prod, sd.start, sd.end)
        den  == BigMul(Trapz2(one, sd.start, sd.end), BigOf(Scale))
    IN  [s |-> IF num = <<>> THEN 0 ELSE 1, n |-> num, d |-> den]

(***************************************************************************)
(* calculate_pt_current, luminous variant (the first cell that defines the *)
(* name), on p = par['downlink'].  `spec` is a local of the function here. *)
(***************************************************************************)
\* The expression with b**2 left out of the square root.
lum_angle_norm_without_b(a, b, d) ==
    LET inner == RAddPos(RMul(RInt(4), RMul(d, d)), RMul(a, a))
        den   == RMul(RMul(RInt(2), d), Fix(Sqrt(inner)))
    IN  IF den.s = 0
        THEN [err |-> "ZeroDivisionError", v |-> RInt(0)]
        ELSE [err |-> "none", v |-> RMul(RInt(4), Fix(Atan(RDiv(RMul(a, b), den))))]

lum_angle_norm(a, b, d) ==
    LET inner == RAddPos(RAddPos(RMul(RInt(4), RMul(d, d)), RMul(a, a)), RMul(b, b))
        den   == RMul(RMul(RInt(2), d), Fix(Sqrt(inner)))
    IN  IF den.s = 0
        THEN [err |-> "ZeroDivisionError", v |-> RInt(0)]
        ELSE [err |-> "none", v |-> RMul(RInt(4), Fix(Atan(RDiv(RMul(a, b), den))))]

\* dis_pt built without .normalise()
lum_eff_raw_detector(als, led) ==
    LET dis_pt  == interpolate(als)
        dis_led == interpolate(normalise(led))
    IN  luminous_efficiency(dis_led, dis_pt)

\* dis_pt, dis_led and eff = colour.luminous_efficiency(dis_led, dis_pt)
lum_eff(als, led) ==
    LET dis_pt  == interpolate(normalise(als))
        dis_led == interpolate(normalise(led))
    IN  luminous_efficiency(dis_led, dis_pt)

\* The locals with the conversion to m^2 applied once:
\*   irr_act = par['downlink']['led_IV_typ'] * angle_norm * 100
lum_locals_single_conversion(p, eff, angle_norm) ==
    LET irr_act == RMul(RMul(Val(p, "led_IV_typ"), angle_norm), RInt(100))
        irr_ref == RInt(1000)
    IN  [eff |-> eff, angle_norm |-> angle_norm, irr_act |-> irr_act,
         I |-> RDiv(RMul(RMul(Val(p, "als_IPH3"), eff), irr_act), irr_ref)]

\* The locals that follow eff and angle_norm:
\*   irr_act = par['downlink']['led_IV_typ'] * angle_norm * 100 * 100
\*   irr_ref = 1000
\*   I = par['downlink']['als_IPH3'] * eff * irr_act/irr_ref
lum_locals(p, eff, angle_norm) ==
    LET irr_act == RMul(RMul(RMul(Val(p, "led_IV_typ"), angle_norm), RInt(100)), RInt(100))
        irr_ref == RInt(1000)
    IN  [eff |-> eff, angle_norm |-> angle_norm, irr_act |-> irr_act,
         I |-> RDiv(RMul(RMul(Val(p, "als_IPH3"), eff), irr_act), irr_ref)]

\* It prints I in mA to three decimals.
calculate_pt_current_lum(p) ==
    LET eff == lum_eff(p["als_spectral_response"], p["led_spectral_response"])
        ang == lum_angle_norm(Side, Side, Val(p, "distance"))
        loc == lum_locals(p, eff, ang.v)
    IN  IF ang.err # "none" THEN [err |-> ang.err, lines |-> <<>>, locals |-> NoDict]
        ELSE [err |-> "none", lines |-> <<RoundAt(RMul(loc.I, RInt(10^3)), 10^3)>>,
              locals |-> loc]

(***************************************************************************)
(* calculate_pt_current, normalized-response variant (the last cell), on   *)
(* p = par['downlink'].  `spec` is not assigned in this function: it is    *)
(* the global name.                                                        *)
(***************************************************************************)
norm_angle_norm(a, b, d) ==
    LET inner == RAddPos(RAddPos(RMul(RInt(4), RMul(d, d)), RMul(a, a)), RMul(b, b))
        den   == RMul(RMul(RInt(2), d), Fix(Sqrt(inner)))
    IN  IF den.s = 0
        THEN [err |-> "ZeroDivisionError", v |-> RInt(0)]
        ELSE [err |-> "none", v |-> RMul(RInt(4), Fix(Atan(RDiv(RMul(a, b), den))))]

\* scipy.constants.sigma = 5.670374419e-8 and T = 2856
const_sigma == [s |-> 1, n |-> <<4419, 7037, 56>>, d |-> BigMul(BigOf(10^9), BigOf(10^8))]
T == 2856

\* The reference irradiance from the locals before it:
\*   irr_watt_per_m2 = 1000 / eff_lm_per_watt
\*   irr_mw_per_cm2 = irr_watt_per_m2 * 1e3 / 100 / 100
\* power_per_area is in scope and is not read.
norm_irradiance(loc) ==
    LET irr_watt_per_m2 == RDiv(RInt(1000), loc.eff_lm_per_watt)
    IN  RDiv(RDiv(RMul(irr_watt_per_m2, RInt(10^3)), RInt(100)), RInt(100))

\* The locals up to the first print:
\*   power_per_area = 1.0 * const.sigma * T**4
\*   eff_lm_per_watt = colour.luminous_efficacy(colour.sd_CIE_standard_illuminant_A())
\*   irr_watt_per_m2 = 1000 / eff_lm_per_watt
\*   irr_mw_per_cm2 = irr_watt_per_m2 * 1e3 / 100 / 100
norm_locals(angle_norm) ==
    LET T2     == RMul(RInt(T), RInt(T))
        before == [power_per_area |-> RMul(RMul(RInt(1), const_sigma), RMul(T2, T2)),
                   eff_lm_per_watt |-> illuminant_A_efficacy]
    IN  [angle_norm |-> angle_norm,
         power_per_area |-> before.power_per_area,
         eff_lm_per_watt |-> before.eff_lm_per_watt,
         irr_mw_per_cm2 |-> norm_irradiance(before),
         \* not assigned yet
         eff_pt |-> RInt(0),
         normalized_response |-> RInt(0)]

\* dis from the global spec and eff_pt = colour.luminous_efficiency(dis)
norm_eff_pt(global_spec) ==
    LET dis == interpolate(normalise(global_spec))
    IN  luminous_efficiency(dis, interpolate(photopic_observer))

\* normalized_response = par['downlink']['als_IPH3'] / (irr_mw_per_cm2 * eff_pt)
norm_normalized_response(p, irr_mw_per_cm2, eff_pt) ==
    RDiv(Val(p, "als_IPH3"), RMul(irr_mw_per_cm2, eff_pt))

\* The function with the distance written into it,  d = 10e-3,  in place of
\* d = p['distance'].
calculate_pt_current_norm_fixed_distance(p, specBound, global_spec) ==
    LET ang    == norm_angle_norm(Side, Side, Rat(common_distance, Unit["distance"]))
        loc    == norm_locals(ang.v)
        first  == <<RoundAt(loc.irr_mw_per_cm2, 10^3)>>
        eff_pt == norm_eff_pt(global_spec)
        resp   == norm_normalized_response(p, loc.irr_mw_per_cm2, eff_pt)
    IN  IF ang.err # "none" THEN [err |-> ang.err, lines |-> <<>>, locals |-> NoDict]
        ELSE IF ~specBound THEN [err |-> "NameError", lines |-> first, locals |-> loc]
        ELSE [err |-> "none",
              lines |-> Append(first, RoundAt(RMul(resp, RInt(10^3)), 10^3)),
              locals |-> [loc EXCEPT !.eff_pt = eff_pt, !.normalized_response = resp]]

\* It prints irr_mw_per_cm2, then the response in mA, both to three decimals.
\* specBound: whether the global name spec is bound when the call runs.
calculate_pt_current_norm(p, specBound, global_spec) ==
    LET ang    == norm_angle_norm(Side, Side, Val(p, "distance"))
        loc    == norm_locals(ang.v)
        first  == <<RoundAt(loc.irr_mw_per_cm2, 10^3)>>
        eff_pt == norm_eff_pt(global_spec)
        resp   == norm_normalized_response(p, loc.irr_mw_per_cm2, eff_pt)
    IN  IF ang.err # "none" THEN [err |-> ang.err, lines |-> <<>>, locals |-> NoDict]
        ELSE IF ~specBound THEN [err |-> "NameError", lines |-> first, locals |-> loc]
        ELSE [err |-> "none",
              lines |-> Append(first, RoundAt(RMul(resp, RInt(10^3)), 10^3)),
              locals |-> [loc EXCEPT !.eff_pt = eff_pt, !.normalized_response = resp]]

(***************************************************************************)
(* The kernel.  The state is the global namespace after the import cell:   *)
(*   names    the global names that are bound                              *)
(*   literal  the dict literal of the par cell as it was last executed     *)
(*   par      the parameter table                                          *)
(*   spec     the global spec (a spectral curve of par)                    *)
(*   x, y     np.linspace(350, 850, 1000) and the interpolation of spec on *)
(*            it, each kept as the data that defines it                    *)
(*   pt       the variant the name calculate_pt_current denotes            *)
(*   out      what the cell executed last did: the cell, the numbers it    *)
(*            printed or displayed, the exception that ended it, and the   *)
(*            locals of the call it made                                   *)
(*   probe    the last two evaluations of the three solid-angle            *)
(*            expressions on a side and a distance of their own (AngleSpec *)
(*            only)                                                        *)
(*   calls    how often each variant of calculate_pt_current has been      *)
(*            called since the par cell, in a run of the cells in document *)
(*            order (DocSpec only)                                         *)
(* A name that is not in `names` holds a placeholder.  In `out`, `ran` is  *)
(* the variant of calculate_pt_current the cell called, if it called one.  *)
(***************************************************************************)
VARIABLES names, literal, par, spec, x, y, pt, out, probe, calls

vars == <<names, literal, par, spec, x, y, pt, out, probe, calls>>

\* The values the worksheet's user gives the edited parameters.
MaxDist == 2
MaxDark == 1
MaxOwn == 1
MaxAmp == 2
Distances == {common_distance * i : i \in -1..MaxDist}
DarkCurrents == {uplink_pd_Ir0 * i : i \in 0..MaxDark}
OwnSets == {{}} \cup {{5 * i} : i \in 1..MaxOwn}
Amplitudes == {a \in (1..MaxAmp) \X (1..MaxAmp) : a[1] = 1 \/ a[2] = 1}

NoCurve == [x |-> <<>>, y |-> <<>>]
NoGrid == [start |-> 0, stop |-> 0, num |-> 0]
NoOutput == [cell |-> "none", err |-> "none", lines |-> <<>>, locals |-> NoDict, ran |-> "none"]
NoAngles == [s |-> 0, d |-> 0]
NoProbe == [cur |-> NoAngles, prev |-> NoAngles]
NoCalls == [luminous |-> 0, normalized |-> 0]

Output(cell, r) ==
    [cell |-> cell, err |-> r.err, lines |-> r.lines, locals |-> r.locals, ran |-> "none"]
Raised(cell, err) ==
    [cell |-> cell, err |-> err, lines |-> <<>>, locals |-> NoDict, ran |-> "none"]

\* The edits of the par cell: any common distance with any dark current, and
\* on the hard-coded values an own distance of the uplink set or a rescaled
\* curve.
Edits ==
    {<<dist, dark, {}, 1, 1>> : dist \in Distances, dark \in DarkCurrents}
    \cup {<<common_distance, uplink_pd_Ir0, own, 1, 1>> : own \in OwnSets}
    \cup {<<common_distance, uplink_pd_Ir0, {}, amp[1], amp[2]>> : amp \in Amplitudes}
Literals == {ParLiteral(e[1], e[2], e[3], e[4], e[5]) : e \in Edits}

\* Every parameter table the par cell can build, and the result of each
\* calculator on each of them (each call is evaluated once).
Merged == [lit \in Literals |-> Merge(lit)]
Tables == {Merged[lit] : lit \in Literals}
Globals ==
    {<<FALSE, NoCurve>>} \cup {<<TRUE, t["downlink"]["als_spectral_response"]>> : t \in Tables}
PdRuns == [p \in {t["uplink"] : t \in Tables} |-> calculate_pd_current(p)]
PtLumRuns == [p \in {t["downlink"] : t \in Tables} |-> calculate_pt_current_lum(p)]
PtNormRuns ==
    [c \in {<<t["downlink"], g>> : t \in Tables, g \in Globals} |->
        calculate_pt_current_norm(c[1], c[2][1], c[2][2])]

\* What the two bare expressions display.
RatioDisplay ==
    Repr(RMul(RDiv(RDiv(RDiv(RInt(1000), RInt(155)), RInt(100)), RInt(100)), RInt(10^3)))
EightDisplay == Repr(RMul(RDiv(RDiv(RInt(8), RInt(100)), RInt(100)), RInt(10^3)))

Init ==
    /\ names = {}
    /\ literal = NoDict
    /\ par = NoDict
    /\ spec = NoCurve
    /\ x = NoGrid
    /\ y = [curve |-> NoCurve, grid |-> NoGrid]
    /\ pt = "none"
    /\ out = NoOutput
    /\ probe = NoProbe
    /\ calls = NoCalls

\* par = {...} and the merge loop; sk and k are globals of the loop.
RunParCell ==
    \E lit \in Literals :
        /\ literal' = lit
        /\ par' = Merged[lit]
        /\ names' = names \cup {"par", "sk", "k"}
        /\ out' = Raised("par", "none")
        /\ UNCHANGED <<spec, x, y, pt, probe>>

\* The cell with  d = p['distance'] = par['common']['distance']  in the function.
RunPdCell_assigning_distance ==
    /\ names' = names \cup {"calculate_pd_current"}
    /\ IF "par" \notin names
       THEN /\ out' = Raised("pd", "NameError")
            /\ par' = par
       ELSE /\ par' = [par EXCEPT !["uplink"]["distance"] = par["common"]["distance"]]
            /\ out' = Output("pd", PdRuns[par'["uplink"]])
    /\ UNCHANGED <<literal, spec, x, y, pt, probe>>

\* def calculate_pd_current(): ... ; calculate_pd_current()
RunPdCell ==
    /\ names' = names \cup {"calculate_pd_current"}
    /\ out' = IF "par" \notin names THEN Raised("pd", "NameError")
              ELSE Output("pd", PdRuns[par["uplink"]])
    /\ UNCHANGED <<literal, par, spec, x, y, pt, probe>>

\* The call calculate_pt_current(): the name is looked up when the call
\* runs, and the variant it denotes then runs on the globals.
CallPtCurrent(variant) ==
    IF variant = "none" \/ "par" \notin names
    THEN [err |-> "NameError", lines |-> <<>>, locals |-> NoDict]
    ELSE IF variant = "luminous" THEN PtLumRuns[par["downlink"]]
    ELSE PtNormRuns[<<par["downlink"], <<"spec" \in names, spec>>>>]

\* The cell with  global spec  in the function: its two assignments to
\* spec rebind the global name, the second to the LED curve.
RunPtLumCell_global_spec ==
    /\ pt' = "luminous"
    /\ out' = [Output("pt_lum", CallPtCurrent(pt')) EXCEPT !.ran = pt']
    /\ IF "par" \notin names
       THEN /\ names' = names \cup {"calculate_pt_current"}
            /\ spec' = spec
       ELSE /\ names' = names \cup {"calculate_pt_current", "spec"}
            /\ spec' = par["downlink"]["led_spectral_response"]
    /\ UNCHANGED <<literal, par, x, y, probe>>

\* def calculate_pt_current(): ... ; calculate_pt_current()   (luminous)
RunPtLumCell ==
    /\ names' = names \cup {"calculate_pt_current"}
    /\ pt' = "luminous"
    /\ out' = [Output("pt_lum", CallPtCurrent(pt')) EXCEPT !.ran = pt']
    /\ UNCHANGED <<literal, par, spec, x, y, probe>>

\* spec = par['downlink']['als_spectral_response']; x = np.linspace(...);
\* y = scipy.interpolate.interp1d(spec['x'], spec['y'])(x) / 100
RunSpecCell ==
    /\ IF "par" \notin names
       THEN /\ out' = Raised("spec", "NameError")
            /\ UNCHANGED <<names, spec, x, y>>
       ELSE /\ spec' = par["downlink"]["als_spectral_response"]
            /\ x' = [start |-> 350, stop |-> 850, num |-> 1000]
            /\ y' = [curve |-> spec', grid |-> x']
            /\ names' = names \cup {"spec", "x", "y"}
            /\ out' = Raised("spec", "none")
    /\ UNCHANGED <<literal, par, pt, probe>>

\* ill = ...; y_ill = interp1d(...)(x); plt.plot(y); sum(y * y) / sum(y) / sum(y)
\* The plot and the displayed ratio are functions of y; they are not evaluated.
RunIlluminantCell ==
    /\ names' = names \cup {"ill"} \cup (IF "x" \in names THEN {"y_ill"} ELSE {})
    /\ out' = Raised("illuminant", IF {"x", "y"} \subseteq names THEN "none" ELSE "NameError")
    /\ UNCHANGED <<literal, par, spec, x, y, pt, probe>>

\* 1000 / 155 / 100 / 100 * 1e3
RunRatioCell ==
    /\ out' = [Raised("ratio", "none") EXCEPT !.lines = <<RatioDisplay>>]
    /\ UNCHANGED <<names, literal, par, spec, x, y, pt, probe>>

\* 8 / 100 / 100 * 1e3
RunEightCell ==
    /\ out' = [Raised("eight", "none") EXCEPT !.lines = <<EightDisplay>>]
    /\ UNCHANGED <<names, literal, par, spec, x, y, pt, probe>>

\* The cell with the call written above the definition: it runs whatever
\* the name denoted before.
RunPtNormCell_calling_before_def ==
    /\ names' = names \cup {"calculate_pt_current"}
    /\ pt' = "normalized"
    /\ out' = [Output("pt_norm", CallPtCurrent(pt)) EXCEPT !.ran = pt]
    /\ UNCHANGED <<literal, par, spec, x, y, probe>>

\* def calculate_pt_current(): ... ; calculate_pt_current()   (normalized response)
RunPtNormCell ==
    /\ names' = names \cup {"calculate_pt_current"}
    /\ pt' = "normalized"
    /\ out' = [Output("pt_norm", CallPtCurrent(pt')) EXCEPT !.ran = pt']
    /\ UNCHANGED <<literal, par, spec, x, y, probe>>

\* Any cell may be run next.
Next ==
    \/ RunParCell /\ UNCHANGED calls
    \/ RunPdCell /\ UNCHANGED calls
    \/ RunPtLumCell /\ UNCHANGED calls
    \/ RunSpecCell /\ UNCHANGED calls
    \/ RunIlluminantCell /\ UNCHANGED calls
    \/ RunRatioCell /\ UNCHANGED calls
    \/ RunEightCell /\ UNCHANGED calls
    \/ RunPtNormCell /\ UNCHANGED calls

Spec == Init /\ [][Next]_vars

(***************************************************************************)
(* The cells run in document order ("Run All"): each cell after the one    *)
(* above it, as long as no cell raises; after the last cell, or after an   *)
(* exception, the run starts again at the par cell (the kernel is not      *)
(* restarted).                                                             *)
(***************************************************************************)
After(cell) == out.cell = cell /\ out.err = "none"

\* The cell just run adds the variant it called to the tally.
Tally ==
    calls' = IF out'.ran = "none" THEN calls ELSE [calls EXCEPT ![out'.ran] = @ + 1]

DocNext ==
    \/ (out.cell \in {"none", "pt_norm"} \/ out.err # "none") /\ RunParCell /\ calls' = NoCalls
    \/ After("par") /\ RunPdCell /\ Tally
    \/ After("pd") /\ RunPtLumCell /\ Tally
    \/ After("pt_lum") /\ RunSpecCell /\ Tally
    \/ After("spec") /\ RunIlluminantCell /\ Tally
    \/ After("illuminant") /\ RunRatioCell /\ Tally
    \/ After("ratio") /\ RunEightCell /\ Tally
    \/ After("eight") /\ RunPtNormCell /\ Tally

DocSpec == Init /\ [][DocNext]_vars

(***************************************************************************)
(* The solid-angle expression on its own: the three code sites applied to  *)
(* a square of side s = a = b and a distance d, both in steps of 5 mm.     *)
(***************************************************************************)
MaxSide == 5
MaxStep == 5
Step == Rat(5, 10^3)

AngleRuns ==
    [c \in {<<i, j>> : i \in 1..MaxSide, j \in 1..MaxStep} |->
        LET s == RMul(RInt(c[1]), Step)
            d == RMul(RInt(c[2]), Step)
        IN  [s |-> c[1], d |-> c[2],
             pd   |-> pd_angle_norm(s, s, d),
             lum  |-> lum_angle_norm(s, s, d),
             norm |-> norm_angle_norm(s, s, d)]]

ProbeAngles ==
    \E i \in 1..MaxSide, j \in 1..MaxStep :
        /\ probe' = [cur |-> AngleRuns[<<i, j>>], prev |-> probe.cur]
        /\ UNCHANGED <<names, literal, par, spec, x, y, pt, out, calls>>

AngleSpec == Init /\ [][ProbeAngles]_vars

(***************************************************************************)
(* Properties.                                                             *)
(***************************************************************************)
\* The closed form of the solid angle of a square of side s at distance d:
\*   4*atan(s^2 / (2*d*sqrt(4*d^2 + 2*s^2)))
ClosedForm(s, d) ==
    LET root == Fix(Sqrt(RAddPos(RMul(RInt(4), RMul(d, d)), RMul(RInt(2), RMul(s, s)))))
    IN  RMul(RInt(4), Fix(Atan(RDiv(RMul(s, s), RMul(RMul(RInt(2), d), root)))))

\* The closed form on every side and distance of the grid (evaluated once).
ClosedFormRuns ==
    [c \in {<<i, j>> : i \in 1..MaxSide, j \in 1..MaxStep} |->
        ClosedForm(RMul(RInt(c[1]), Step), RMul(RInt(c[2]), Step))]

Probed == probe.cur # NoAngles
Calculators == {"pd", "pt_lum", "pt_norm"}
\* The last cell called a calculator on a bound par.
Called(cell) == out.cell = cell /\ "par" \in names

\* C1: at each of the three code sites the solid angle computed for a square
\* of side s = a = b at a distance d > 0 equals the closed form
\* 4*atan(s^2/(2*d*sqrt(4*d^2 + 2*s^2))), so the three sites compute the
\* same function of (s, d).
C1_SitesEqualClosedForm ==
    Probed =>
        LET m      == probe.cur
            closed == ClosedFormRuns[<<m.s, m.d>>]
        IN  \A site \in {m.pd, m.lum, m.norm} : site.err = "none" /\ REq(site.v, closed)

\* The three sites have been evaluated on the worksheet's own side and distance.
C1_Witness ==
    /\ Probed
    /\ REq(RMul(RInt(probe.cur.s), Step), Side)
    /\ REq(RMul(RInt(probe.cur.d), Step), Rat(common_distance, Unit["distance"]))
    /\ probe.cur.norm.v.s = 1

\* C2: the computed solid angle is strictly decreasing in the distance for a
\* fixed side and strictly increasing in the side for a fixed distance.
C2_Monotonic ==
    (Probed /\ probe.prev # NoAngles) =>
        /\ (probe.prev.s = probe.cur.s /\ probe.prev.d < probe.cur.d)
              => RLt(probe.cur.pd.v, probe.prev.pd.v)
        /\ (probe.prev.d = probe.cur.d /\ probe.prev.s < probe.cur.s)
              => RLt(probe.prev.pd.v, probe.cur.pd.v)

\* Two successive evaluations at the same side, the second further away.
C2_Witness ==
    /\ probe.prev # NoAngles
    /\ probe.prev.s = probe.cur.s
    /\ probe.prev.d < probe.cur.d
    /\ probe.cur.pd.v.s = 1

\* The factors a parameter is multiplied by.
MaxFactor == 3

\* C3: in calculate_pd_current the photocurrent is linear in led_current and
\* in pd_eff: with the other parameters fixed, k times either gives k times
\* current_pd, and zero for k = 0.
C3_PhotocurrentLinear ==
    (Called("pd") /\ out.locals # NoDict) =>
        LET p    == par["uplink"]
            base == out.locals
        IN  \A k \in 0..MaxFactor :
                LET byCurrent == pd_locals([p EXCEPT !["led_current"] = k * @], base.angle_norm)
                    byEff     == pd_locals([p EXCEPT !["pd_eff"] = k * @], base.angle_norm)
                IN  /\ REq(byCurrent.current_pd, RMul(RInt(k), base.current_pd))
                    /\ REq(byEff.current_pd, RMul(RInt(k), base.current_pd))
                    /\ (k = 0 => byCurrent.current_pd.s = 0 /\ byEff.current_pd.s = 0)

\* The calculator has produced a positive photocurrent.
C3_Witness ==
    Called("pd") /\ out.err = "none" /\ out.locals.current_pd.s = 1

\* C4: the SNR calculate_pd_current prints is 20*log10(current_pd/pd_Ir0),
\* and it is the same when the photocurrent and the dark current are both
\* multiplied by the same positive factor.
C4_SnrIsTwentyLog ==
    (Called("pd") /\ out.err = "none") =>
        LET cur  == out.locals.current_pd
            dark == Val(par["uplink"], "pd_Ir0")
        IN  /\ out.lines[3] = 20 * Log10(RDiv(cur, dark))
            /\ \A k \in 1..MaxFactor :
                   LET scaled == pd_snr(RMul(RInt(k), cur), RMul(RInt(k), dark))
                   IN  scaled.err = "none" /\ scaled.v = out.lines[3]

\* The calculator has printed an SNR for an edited dark current.
C4_Witness ==
    /\ Called("pd")
    /\ Len(out.lines) = 3
    /\ par["uplink"]["pd_Ir0"] > 0
    /\ literal["common"]["distance"] # common_distance

\* eff for the two curves as they are digitised in the notebook.
eff_as_digitised == lum_eff(als_spectral_response, led_spectral_response)

\* C5: eff of the luminous variant does not change when every response value
\* of the LED curve, or of the detector curve, is multiplied by the same
\* positive constant.
C5_EffAmplitudeInvariant ==
    (Called("pt_lum") /\ out.err = "none") => REq(out.locals.eff, eff_as_digitised)

\* The luminous variant has run on a rescaled detector curve.
C5_Witness ==
    /\ Called("pt_lum")
    /\ out.err = "none"
    /\ par["downlink"]["als_spectral_response"] # als_spectral_response
    /\ par["downlink"]["led_spectral_response"] = led_spectral_response

\* The par cell as it is written in the notebook.
HardCoded == ParLiteral(common_distance, uplink_pd_Ir0, {}, 1, 1)

\* C6: for the hard-coded constants calculate_pd_current prints an
\* irradiance of 0.023 mW/cm^2, a photocurrent of 0.747 uA and an SNR that
\* is 27.93 dB to two decimals (the recorded 27.92910861784319 to 1e-5).
C6_RecordedOutput ==
    (Called("pd") /\ literal = HardCoded) =>
        /\ out.err = "none"
        /\ out.lines[1] = 23
        /\ out.lines[2] = 747
        /\ RoundAt(Fix(out.lines[3]), 100) = 2793
        /\ Abs(out.lines[3] - 279291086) <= 100

\* The calculator has run on the hard-coded constants.
C6_Witness ==
    Called("pd") /\ literal = HardCoded /\ Len(out.lines) = 3

\* C7: after the merge loop every parameter set other than 'common' has
\* every key of 'common': with the common value where the literal did not
\* define the key, with its own value where it did.
C7_MergeDefaults ==
    "par" \in names =>
        \A sk \in DOMAIN par \ {"common"} :
            \A k \in DOMAIN par["common"] :
                /\ k \in DOMAIN par[sk]
                /\ par[sk][k] = IF k \in DOMAIN literal[sk]
                                THEN literal[sk][k] ELSE literal["common"][k]

\* The uplink set kept a distance of its own, the downlink set got the common one.
C7_Witness ==
    /\ "par" \in names
    /\ "distance" \in DOMAIN literal["uplink"]
    /\ par["uplink"]["distance"] # par["common"]["distance"]
    /\ "distance" \notin DOMAIN literal["downlink"]
    /\ par["downlink"]["distance"] = par["common"]["distance"]

\* C8: no cell other than the par cell changes par: any run of the
\* calculators and of the interpolation cells leaves every key and value of
\* the parameter table as it was.
C8_ParImmutable == [][out'.cell # "par" => par' = par]_vars

\* All three calculators are defined and the normalized variant has run on
\* a table whose uplink set has a distance of its own, after the spec cell.
C8_Witness ==
    /\ Called("pt_norm")
    /\ {"calculate_pd_current", "spec", "y_ill"} \subseteq names
    /\ out.err = "none"
    /\ par["uplink"]["distance"] # par["common"]["distance"]

\* What a calculator prints on table t when the notebook is run top to
\* bottom (the spec cell before the normalized variant).
TopToBottom(cell, t) ==
    IF cell = "pd" THEN PdRuns[t["uplink"]]
    ELSE IF cell = "pt_lum" THEN PtLumRuns[t["downlink"]]
    ELSE PtNormRuns[<<t["downlink"], <<TRUE, t["downlink"]["als_spectral_response"]>>>>]

\* C9: what a calculator prints depends on par only: it is what the
\* calculator prints on the same par in a top-to-bottom run, whichever
\* cells ran before it.
C9_PrintsDependOnParOnly ==
    \A cell \in Calculators :
        Called(cell) =>
            /\ out.lines = TopToBottom(cell, par).lines
            /\ out.err = TopToBottom(cell, par).err

\* C10: with a positive distance (the intensity, the drive current and the
\* efficiency are positive) calculate_pd_current fails only when the dark
\* current is zero, and with a positive dark current it prints all three
\* values.
C10_FailsOnlyOnZeroDark ==
    (Called("pd") /\ par["uplink"]["distance"] > 0) =>
        /\ out.err # "none" => par["uplink"]["pd_Ir0"] = 0
        /\ par["uplink"]["pd_Ir0"] > 0 => out.err = "none" /\ Len(out.lines) = 3

\* The calculator has failed on a zero dark current at a positive distance.
C10_Witness ==
    /\ Called("pd")
    /\ par["uplink"]["distance"] > 0
    /\ par["uplink"]["pd_Ir0"] = 0
    /\ out.err = "ZeroDivisionError"
    /\ Len(out.lines) = 2

\* C11: an invalid input of calculate_pd_current ends the cell with an
\* arithmetic exception and without an SNR: a zero distance with a
\* ZeroDivisionError in the solid-angle step (nothing is printed), a negative
\* distance with a negative photocurrent and the logarithm's ValueError in
\* the SNR step, a zero dark current with a ZeroDivisionError in the SNR
\* step (the first two lines are printed).
C11_InvalidInputsRaise ==
    Called("pd") =>
        LET d    == par["uplink"]["distance"]
            dark == par["uplink"]["pd_Ir0"]
        IN  /\ d = 0 => out.err = "ZeroDivisionError" /\ out.lines = <<>> /\ out.locals = NoDict
            /\ (d < 0 /\ dark > 0) =>
                   /\ out.err = "ValueError"
                   /\ Len(out.lines) = 2
                   /\ out.locals.current_pd.s = -1
            /\ (d # 0 /\ dark = 0) => out.err = "ZeroDivisionError" /\ Len(out.lines) = 2
            /\ (d <= 0 \/ dark = 0) => out.err # "none" /\ Len(out.lines) < 3

\* The calculator has run on a negative distance and a positive dark current.
C11_Witness ==
    /\ Called("pd")
    /\ par["uplink"]["distance"] < 0
    /\ par["uplink"]["pd_Ir0"] > 0
    /\ out.err = "ValueError"
    /\ out.lines[2] < 0

\* C12: the reference irradiance and the normalized response the
\* normalized-response variant prints are functions of the Stefan-Boltzmann
\* power_per_area and not of a luminous-efficacy value: with another
\* efficacy in its place the two values are the same, with another
\* power_per_area they are not.
C12_BlackBodyNotEfficacy ==
    (Called("pt_norm") /\ out.err = "none") =>
        LET loc == out.locals
            p   == par["downlink"]
        IN  \A k \in 2..MaxFactor :
                LET byEfficacy == norm_irradiance([loc EXCEPT !.eff_lm_per_watt = RMul(RInt(k), @)])
                    byPower    == norm_irradiance([loc EXCEPT !.power_per_area = RMul(RInt(k), @)])
                IN  /\ REq(byEfficacy, loc.irr_mw_per_cm2)
                    /\ REq(norm_normalized_response(p, byEfficacy, loc.eff_pt),
                           loc.normalized_response)
                    /\ ~REq(byPower, loc.irr_mw_per_cm2)
                    /\ ~REq(norm_normalized_response(p, byPower, loc.eff_pt),
                            loc.normalized_response)

\* C13: the luminous variant's estimate is
\*   I = als_IPH3 * eff * (led_IV_typ * angle_norm * 100 * 100) / 1000,
\* k times als_IPH3, eff, led_IV_typ or the solid angle gives k times I, and
\* the call prints one value, I in mA.
C13_LuminousCurrent ==
    (Called("pt_lum") /\ out.err = "none") =>
        LET p     == par["downlink"]
            loc   == out.locals
            ratio == RDiv(RMul(RMul(RMul(Val(p, "led_IV_typ"), loc.angle_norm), RInt(100)),
                               RInt(100)),
                          RInt(1000))
        IN  /\ REq(loc.I, RMul(RMul(Val(p, "als_IPH3"), loc.eff), ratio))
            /\ out.lines = <<RoundAt(RMul(loc.I, RInt(10^3)), 10^3)>>
            /\ \A k \in 0..MaxFactor :
                   LET scaled == RMul(RInt(k), loc.I)
                       byRef  == lum_locals([p EXCEPT !["als_IPH3"] = k * @], loc.eff, loc.angle_norm)
                       byLed  == lum_locals([p EXCEPT !["led_IV_typ"] = k * @], loc.eff, loc.angle_norm)
                       byEff  == lum_locals(p, RMul(RInt(k), loc.eff), loc.angle_norm)
                       byAng  == lum_locals(p, loc.eff, RMul(RInt(k), loc.angle_norm))
                   IN  \A other \in {byRef, byLed, byEff, byAng} : REq(other.I, scaled)

\* The luminous variant has printed a positive current.
C13_Witness ==
    /\ Called("pt_lum")
    /\ out.err = "none"
    /\ out.locals.I.s = 1
    /\ out.lines[1] > 0

\* The two spectral response curves of the parameter table.
Curves == {"als_spectral_response", "led_spectral_response"}

\* C14: each spectral response curve of par has x and y lists of the same
\* length and strictly increasing wavelengths, and no cell other than the
\* par cell, which defines them, changes either list.
C14_CurvesParallelOrdered ==
    /\ []("par" \in names =>
             \A c \in Curves :
                 LET curve == par["downlink"][c]
                 IN  /\ Len(curve.x) = Len(curve.y)
                     /\ Len(curve.x) > 1
                     /\ \A i \in 1..(Len(curve.x) - 1) : curve.x[i] < curve.x[i + 1])
    /\ [][(out'.cell # "par" /\ "par" \in names) =>
              \A c \in Curves : par'["downlink"][c] = par["downlink"][c]]_vars

\* The normalized variant has read the detector curve through the global
\* spec, after the luminous variant's table had a rescaled LED curve.
C14_Witness ==
    /\ Called("pt_norm")
    /\ out.err = "none"
    /\ spec = par["downlink"]["als_spectral_response"]
    /\ par["downlink"]["led_spectral_response"] # led_spectral_response

\* The curves a parameter table can hold, and eff_pt for each of them.
AlsCurves == {t["downlink"]["als_spectral_response"] : t \in Tables}
LedCurves == {t["downlink"]["led_spectral_response"] : t \in Tables}
EffPtOf == [c \in AlsCurves \cup LedCurves |-> norm_eff_pt(c)]

\* C15: the normalized-response variant reads the global name spec: called
\* (on a table with a non-zero distance) while spec is unbound it fails with
\* a NameError after its first line; called while spec is bound it uses the
\* curve spec holds, which is a detector (ALS) curve, and after the spec
\* cell ran on the current table it is that table's detector curve and not
\* its LED curve; the luminous variant's cell leaves the global spec as it
\* was, bound or unbound.
C15_NormReadsGlobalSpec ==
    /\ []((Called("pt_norm") /\ par["downlink"]["distance"] # 0) =>
             IF "spec" \notin names
             THEN out.err = "NameError" /\ Len(out.lines) = 1
             ELSE /\ out.err = "none"
                  /\ spec \in AlsCurves
                  /\ REq(out.locals.eff_pt, EffPtOf[spec])
                  /\ spec = par["downlink"]["als_spectral_response"] =>
                         ~REq(out.locals.eff_pt,
                              EffPtOf[par["downlink"]["led_spectral_response"]]))
    /\ [][out'.cell = "pt_lum" =>
              /\ spec' = spec
              /\ ("spec" \in names') = ("spec" \in names)]_vars

\* The normalized variant has been called in a kernel where the spec cell
\* has not run.
C15_Witness ==
    /\ Called("pt_norm")
    /\ "spec" \notin names
    /\ out.err = "NameError"
    /\ Len(out.lines) = 1

\* The cells that define calculate_pt_current, and the variant each defines.
Defines == [pt_lum |-> "luminous", pt_norm |-> "normalized"]

\* C16: the name calculate_pt_current denotes the variant of the defining
\* cell that ran last; each defining cell calls the variant it has just
\* defined and no other cell calls one; in a run in document order each
\* variant is called at most once, and exactly once when the run has reached
\* the last cell; what a variant prints is what it prints on the same table
\* in any other run, whether or not the other variant ran before it; after
\* the run the name denotes the normalized-response variant.
C16_OneNameTwoVariants ==
    /\ [](/\ out.cell \in DOMAIN Defines => pt = Defines[out.cell] /\ out.ran = pt
          /\ out.cell \notin DOMAIN Defines => out.ran = "none"
          /\ calls.luminous <= 1 /\ calls.normalized <= 1
          /\ out.cell = "pt_norm" =>
                 calls = [luminous |-> 1, normalized |-> 1] /\ pt = "normalized"
          /\ \A cell \in DOMAIN Defines :
                 Called(cell) =>
                     /\ out.lines = TopToBottom(cell, par).lines
                     /\ out.err = TopToBottom(cell, par).err)
    /\ [][out'.cell \notin DOMAIN Defines => pt' = pt]_vars

\* A run in document order has reached the end of the last cell.
C16_Witness ==
    /\ out.cell = "pt_norm"
    /\ out.err = "none"
    /\ out.ran = "normalized"
    /\ calls = [luminous |-> 1, normalized |-> 1]

\* C17: the merge loop leaves the top-level keys and the 'common' set of the
\* literal as they are, keeps every key of a link set with its value, adds
\* to a link set only keys of 'common', and run on its own result changes
\* nothing.
C17_MergeFrame ==
    "par" \in names =>
        /\ DOMAIN par = DOMAIN literal
        /\ par["common"] = literal["common"]
        /\ \A sk \in DOMAIN literal \ {"common"} :
               /\ DOMAIN par[sk] = DOMAIN literal[sk] \cup DOMAIN literal["common"]
               /\ \A k \in DOMAIN literal[sk] : par[sk][k] = literal[sk][k]
        /\ Merge(par) = par

\* The par cell has just run on a literal whose uplink set has a distance of
\* its own, which the loop kept.
C17_Witness ==
    /\ out.cell = "par"
    /\ "distance" \in DOMAIN literal["uplink"]
    /\ par["uplink"]["distance"] = literal["uplink"]["distance"]
    /\ par["uplink"]["distance"] # literal["common"]["distance"]
    /\ "distance" \notin DOMAIN literal["downlink"]

\* The link sets of the literal that define a distance of their own.
OwnDistance(lit) == {sk \in DOMAIN lit \ {"common"} : "distance" \in DOMAIN lit[sk]}

\* C18: the par cell as written gives neither link set a distance of its
\* own, and both hold the common 10 mm after the merge; whenever no link set
\* has its own distance (the common distance may have been edited), both
\* hold the common distance, and the solid angle a calculator computes is
\* the one every other calculator computes on that table: a calculator
\* fails in the solid-angle step exactly when the others do.
C18_CommonDistance ==
    /\ OwnDistance(HardCoded) = {}
    /\ ("par" \in names /\ literal = HardCoded) =>
           \A sk \in {"uplink", "downlink"} : par[sk]["distance"] = 10
    /\ ("par" \in names /\ OwnDistance(literal) = {}) =>
           /\ \A sk \in {"uplink", "downlink"} :
                  par[sk]["distance"] = literal["common"]["distance"]
           /\ \A cell \in Calculators :
                  Called(cell) =>
                      \A other \in Calculators :
                          LET there == TopToBottom(other, par).locals
                          IN  IF out.locals = NoDict THEN there = NoDict
                              ELSE /\ there # NoDict
                                   /\ REq(out.locals.angle_norm, there.angle_norm)

\* The luminous variant has computed a solid angle on a table whose common
\* distance was edited to 20 mm.
C18_Witness ==
    /\ Called("pt_lum")
    /\ OwnDistance(literal) = {}
    /\ literal["common"]["distance"] = 2 * common_distance
    /\ par["downlink"]["distance"] = 2 * common_distance
    /\ out.locals.angle_norm.s = 1

=============================================================================
